---- MODULE Spec2Model ----
(***************************************************************************)
(* Model of the ZLS release worker: the release store (table ZLSReleases), *)
(* the publish handler (handlePublish) and the version selector            *)
(* (selectOnTaggedRelease, selectOnDevelopmentBuild).                      *)
(*                                                                         *)
(* A version string is modelled by the record SemanticVersion.parse makes  *)
(* of it; two strings are the same string iff their records are equal      *)
(* (commitID included).                                                    *)
(***************************************************************************)
EXTENDS Integers, Sequences, FiniteSets, TLC

VARIABLES
    store,      \* table ZLSReleases: ZLSVersion -> JsonData
    bucket,     \* the blob "index.json" of ZIGTOOLS_BUILDS
    clock,      \* Date.now()
    published,  \* the number of publishes accepted so far
    resp,       \* the last response a handler returned
    procs,      \* concurrent publish requests: position and locals of each
    env         \* the bindings of the worker: API_TOKEN

vars == <<store, bucket, clock, published, resp, procs, env>>

----------------------------------------------------------------------------
(* Bounds of the model *)

\* accepted publish requests per behaviour
MaxPublishes == 3
\* the last value of the clock
MaxClock == 1
\* commit heights of the development versions: 1..MaxHeight
MaxHeight == 3
\* concurrent publish requests in flight
MaxProcs == 2
\* clock ticks per day
DayLength == 2
\* entries of a list of tested versions handed to isVersionEnclosedInFailure
MaxTested == 3

----------------------------------------------------------------------------
(* SemanticVersion *)

\* commitHeight of a tagged version (undefined in the source)
Undefined == 0 - 1

Tagged(M, m, p) ==
    [major |-> M, minor |-> m, patch |-> p, isRelease |-> TRUE,
     commitHeight |-> Undefined, commitID |-> ""]

Dev(M, m, p, h, id) ==
    [major |-> M, minor |-> m, patch |-> p, isRelease |-> FALSE,
     commitHeight |-> h, commitID |-> id]

\* mutant: a commitHeight that is undefined or 0 on either side ends the
\* comparison with eq
OrderFalsy(lhs, rhs) ==
    IF lhs.major < rhs.major THEN 0 - 1
    ELSE IF lhs.major > rhs.major THEN 1
    ELSE IF lhs.minor < rhs.minor THEN 0 - 1
    ELSE IF lhs.minor > rhs.minor THEN 1
    ELSE IF lhs.patch < rhs.patch THEN 0 - 1
    ELSE IF lhs.patch > rhs.patch THEN 1
    ELSE IF lhs.commitHeight \in {Undefined, 0} \/ rhs.commitHeight \in {Undefined, 0}
    THEN 0
    ELSE IF lhs.commitHeight < rhs.commitHeight THEN 0 - 1
    ELSE IF lhs.commitHeight > rhs.commitHeight THEN 1
    ELSE 0

\* SemanticVersion.order: -1 (lt), 0 (eq), 1 (gt)
Order(lhs, rhs) ==
    IF lhs.major < rhs.major THEN 0 - 1
    ELSE IF lhs.major > rhs.major THEN 1
    ELSE IF lhs.minor < rhs.minor THEN 0 - 1
    ELSE IF lhs.minor > rhs.minor THEN 1
    ELSE IF lhs.patch < rhs.patch THEN 0 - 1
    ELSE IF lhs.patch > rhs.patch THEN 1
    ELSE IF lhs.commitHeight = Undefined /\ rhs.commitHeight = Undefined THEN 0
    ELSE IF lhs.commitHeight = Undefined THEN 1
    ELSE IF rhs.commitHeight = Undefined THEN 0 - 1
    ELSE IF lhs.commitHeight < rhs.commitHeight THEN 0 - 1
    ELSE IF lhs.commitHeight > rhs.commitHeight THEN 1
    ELSE 0

lt == 0 - 1
eq == 0
gt == 1

----------------------------------------------------------------------------
(* VersionCompatibility *)

None == "none"
OnlyRuntime == "only-runtime"
Full == "full"
VersionCompatibility == {None, OnlyRuntime, Full}

----------------------------------------------------------------------------
(* D2JsonData and the table ZLSReleases *)

\* JsonData.testedZigVersions is a JSON object: a list of (key, value) members
\* in insertion order, one member per key.
TestedKeys(tested) == {tested[i].version : i \in 1..Len(tested)}

\* testedZigVersions[key], "undefined" when the object has no such member
TestedGet(tested, key) ==
    IF key \in TestedKeys(tested)
    THEN (CHOOSE e \in {tested[i] : i \in 1..Len(tested)} : e.version = key).compat
    ELSE "undefined"

\* mutant: a member that exists keeps its value
JsonPatchTestedKeep(tested, key, compat) ==
    IF key \in TestedKeys(tested) THEN tested
    ELSE Append(tested, [version |-> key, compat |-> compat])

\* json_patch(JsonData, {testedZigVersions: {[key]: compat}}): an existing
\* member is replaced in place, a new member is appended
JsonPatchTested(tested, key, compat) ==
    IF key \in TestedKeys(tested)
    THEN [i \in 1..Len(tested) |->
            IF tested[i].version = key
            THEN [version |-> key, compat |-> compat] ELSE tested[i]]
    ELSE Append(tested, [version |-> key, compat |-> compat])

EmptyStore == [v \in {} |-> v]

\* SELECT ... WHERE IsRelease = 1
TaggedRows(db) == {v \in DOMAIN db : v.isRelease}

\* ORDER BY ZLSVersionMajor, ZLSVersionMinor, ZLSVersionPatch (ascending)
ColumnsBefore(a, b) ==
    \/ a.major < b.major
    \/ a.major = b.major /\ a.minor < b.minor
    \/ a.major = b.major /\ a.minor = b.minor /\ a.patch < b.patch

RECURSIVE OrderByVersionDesc(_)
OrderByVersionDesc(S) ==
    IF S = {} THEN <<>>
    ELSE LET m == CHOOSE x \in S : \A y \in S : ~ColumnsBefore(x, y)
         IN  <<m>> \o OrderByVersionDesc(S \ {m})

RECURSIVE OrderByVersionAsc(_)
OrderByVersionAsc(S) ==
    IF S = {} THEN <<>>
    ELSE LET m == CHOOSE x \in S : \A y \in S : ~ColumnsBefore(y, x)
         IN  <<m>> \o OrderByVersionAsc(S \ {m})

RECURSIVE OrderByBuildIDAsc(_)
OrderByBuildIDAsc(S) ==
    IF S = {} THEN <<>>
    ELSE LET m == CHOOSE x \in S : \A y \in S : x.commitHeight <= y.commitHeight
         IN  <<m>> \o OrderByBuildIDAsc(S \ {m})

\* mutant: the tagged releases oldest first
AllTaggedDescAscending(db) == OrderByVersionAsc(TaggedRows(db))

\* "... WHERE IsRelease = 1 ORDER BY Major DESC, Minor DESC, Patch DESC"
AllTaggedDesc(db) == OrderByVersionDesc(TaggedRows(db))

\* mutant: the tagged releases latest first
AllTaggedAscDescending(db) == OrderByVersionDesc(TaggedRows(db))

\* "... WHERE IsRelease = 1 ORDER BY Major ASC, Minor ASC, Patch ASC"
AllTaggedAsc(db) == OrderByVersionAsc(TaggedRows(db))

\* mutant: ORDER BY Patch ASC
TaggedByMinorAscending(db, M, m) ==
    OrderByVersionAsc({v \in TaggedRows(db) : v.major = M /\ v.minor = m})

\* "... WHERE IsRelease = 1 AND Major = ?1 AND Minor = ?2 ORDER BY Patch DESC"
TaggedByMinor(db, M, m) ==
    OrderByVersionDesc({v \in TaggedRows(db) : v.major = M /\ v.minor = m})

\* "... WHERE IsRelease = 0 AND Major = ?1 AND Minor = ?2 ORDER BY BuildID ASC"
DevByMinor(db, M, m) ==
    OrderByBuildIDAsc({v \in DOMAIN db :
                         ~v.isRelease /\ v.major = M /\ v.minor = m})

\* "... WHERE IsRelease = 0 AND Major = ?1 AND Minor = ?2 AND Patch = ?3 AND
\* BuildID = ?4": the rows first() may return
DevByQuad(db, M, m, p, h) ==
    {v \in DOMAIN db : /\ ~v.isRelease
                       /\ v.major = M /\ v.minor = m /\ v.patch = p
                       /\ v.commitHeight = h}

----------------------------------------------------------------------------
(* select-zls-version.ts *)

\* SelectVersionFailureCode
Unsupported == 0
DevelopmentBuildUnsupported == 1
DevelopmentBuildIncompatible == 2
TaggedReleaseIncompatible == 3

Release(data) == [kind |-> "release", data |-> data]
Failure(code) == [kind |-> "failure", code |-> code]
\* a failed assert(): the handler throws
AssertionError(what) == [kind |-> "assert", what |-> what]

selectOnTaggedRelease(db, zigVersion) ==
    LET selectedRelease == TaggedByMinor(db, zigVersion.major, zigVersion.minor)
        oldestRelease == AllTaggedAsc(db)
    IN  IF selectedRelease # <<>>
        THEN Release(db[selectedRelease[1]])
        ELSE IF /\ oldestRelease # <<>>
                /\ Order(zigVersion,
                         db[oldestRelease[1]].minimumRuntimeZigVersion) = lt
             THEN Failure(Unsupported)
             ELSE Failure(TaggedReleaseIncompatible)

\* mutant: Full takes the smaller of the two minimum versions
selectMinimumZigVersionSmaller(data, compatibility) ==
    IF compatibility = Full
    THEN IF Order(data.minimumBuildZigVersion, data.minimumRuntimeZigVersion) = lt
         THEN data.minimumBuildZigVersion
         ELSE data.minimumRuntimeZigVersion
    ELSE data.minimumRuntimeZigVersion

selectMinimumZigVersion(data, compatibility) ==
    IF compatibility = Full
    THEN IF Order(data.minimumBuildZigVersion, data.minimumRuntimeZigVersion) = lt
         THEN data.minimumRuntimeZigVersion
         ELSE data.minimumBuildZigVersion
    ELSE data.minimumRuntimeZigVersion

\* the while loop of isVersionEnclosedInFailure
RECURSIVE BinarySearch(_, _, _, _)
BinarySearch(testedVersions, version, start, end) ==
    IF start <= end
    THEN LET mid == (start + end) \div 2
             o == Order(testedVersions[mid].version, version)
         IN  IF o = lt THEN BinarySearch(testedVersions, version, mid + 1, end)
             ELSE IF o = eq THEN [found |-> TRUE, mid |-> mid,
                                  start |-> start, end |-> end]
             ELSE BinarySearch(testedVersions, version, start, mid - 1)
    ELSE [found |-> FALSE, mid |-> 0, start |-> start, end |-> end]

\* "enclosed", "free", or "assert" when one of its assertions fails
isVersionEnclosedInFailure(testedVersions, version) ==
    LET n == Len(testedVersions)
        Answer(failed) == IF failed THEN "enclosed" ELSE "free"
    IN  IF n = 0 THEN "assert"
        ELSE IF Order(version, testedVersions[1].version) \in {lt, eq}
        THEN Answer(~testedVersions[1].isSuccess)
        ELSE IF Order(version, testedVersions[n].version) \in {eq, gt}
        THEN Answer(~testedVersions[n].isSuccess)
        ELSE LET r == BinarySearch(testedVersions, version, 1, n)
                 \* [start, end] = [end, start]
                 start == r.end
                 end == r.start
             IN  IF r.found THEN Answer(~testedVersions[r.mid].isSuccess)
                 ELSE IF ~(1 <= start /\ start <= n) THEN "assert"
                 ELSE IF ~(1 <= end /\ end <= n) THEN "assert"
                 ELSE Answer(/\ ~testedVersions[start].isSuccess
                             /\ ~testedVersions[end].isSuccess)

\* the .map() callback: success of a tested compatibility under the requested one
IsSuccess(testedCompatibility, compatibility) ==
    IF testedCompatibility = None THEN FALSE
    ELSE IF testedCompatibility = OnlyRuntime THEN compatibility = OnlyRuntime
    ELSE TRUE

\* Array.prototype.sort with SemanticVersion.order: stable, ascending
RECURSIVE SortByVersion(_)
SortByVersion(list) ==
    IF list = <<>> THEN <<>>
    ELSE LET n == Len(list)
             sorted == SortByVersion(SubSeq(list, 1, n - 1))
             e == list[n]
             k == Cardinality({i \in 1..Len(sorted) :
                                 Order(sorted[i].version, e.version) \in {lt, eq}})
         IN  SubSeq(sorted, 1, k) \o <<e>> \o SubSeq(sorted, k + 1, Len(sorted))

TestedZigVersionsList(data, compatibility) ==
    SortByVersion([i \in 1..Len(data.testedZigVersions) |->
        [version |-> data.testedZigVersions[i].version,
         isSuccess |-> IsSuccess(data.testedZigVersions[i].compat, compatibility)]])

\* mutant: the scan stops at the first entry whose minimum is above zigVersion
RECURSIVE SelectLoopBreak(_, _, _, _, _, _)
SelectLoopBreak(db, releases, i, selectedEntry, zigVersion, compatibility) ==
    IF i > Len(releases) THEN Release(selectedEntry)
    ELSE LET data == db[releases[i]]
         IN  IF data.artifacts = {} THEN AssertionError("artifacts")
             ELSE IF Order(zigVersion,
                           selectMinimumZigVersion(data, compatibility)) = lt
             THEN Release(selectedEntry)
             ELSE SelectLoopBreak(db, releases, i + 1, data,
                                  zigVersion, compatibility)

\* the for loop over releases: the last entry whose minimum admits zigVersion
RECURSIVE SelectLoop(_, _, _, _, _, _)
SelectLoop(db, releases, i, selectedEntry, zigVersion, compatibility) ==
    IF i > Len(releases) THEN Release(selectedEntry)
    ELSE LET data == db[releases[i]]
         IN  IF data.artifacts = {} THEN AssertionError("artifacts")
             ELSE IF Order(zigVersion,
                           selectMinimumZigVersion(data, compatibility)) = lt
             THEN SelectLoop(db, releases, i + 1, selectedEntry,
                             zigVersion, compatibility)
             ELSE SelectLoop(db, releases, i + 1, data, zigVersion, compatibility)

\* mutant: the two failure codes exchanged
BelowOldestMinimumExchanged(developmentReleases) ==
    IF developmentReleases = <<>>
    THEN Failure(Unsupported)
    ELSE Failure(DevelopmentBuildUnsupported)

\* zigVersion is below the minimum of the oldest release of the list
BelowOldestMinimum(developmentReleases) ==
    IF developmentReleases = <<>>
    THEN Failure(DevelopmentBuildUnsupported)
    ELSE Failure(Unsupported)

selectOnDevelopmentBuild(db, zigVersion, compatibility) ==
    LET developmentReleases == DevByMinor(db, zigVersion.major, zigVersion.minor)
        latestTaggedRelease == AllTaggedDesc(db)
        releases ==
            IF developmentReleases # <<>> THEN developmentReleases
            ELSE IF latestTaggedRelease # <<>> THEN <<latestTaggedRelease[1]>>
            ELSE <<>>
    IN  IF releases = <<>> THEN Failure(DevelopmentBuildUnsupported)
        ELSE
        LET oldestRelease == db[releases[1]]
            oldestMinZigVersion == selectMinimumZigVersion(oldestRelease, compatibility)
        IN  IF Order(zigVersion, oldestMinZigVersion) = lt
            THEN BelowOldestMinimum(developmentReleases)
            ELSE
            LET looped == SelectLoop(db, releases, 1, oldestRelease,
                                     zigVersion, compatibility)
            IN  IF looped.kind = "assert" THEN looped
                ELSE
                LET selectedEntry == looped.data
                    testedZigVersions ==
                        TestedZigVersionsList(selectedEntry, compatibility)
                    enclosed == isVersionEnclosedInFailure(testedZigVersions,
                                                           zigVersion)
                IN  IF TestedGet(selectedEntry.testedZigVersions,
                                 selectedEntry.zigVersion) # Full
                    THEN AssertionError("testedZigVersions[zigVersion]")
                    ELSE IF testedZigVersions = <<>> THEN AssertionError("empty")
                    ELSE IF enclosed = "assert" THEN AssertionError("index")
                    ELSE IF enclosed = "enclosed"
                    THEN Failure(DevelopmentBuildIncompatible)
                    ELSE Release(selectedEntry)

\* handleSelectVersion: dispatch on zigVersion.isRelease
handleSelectVersion(db, zigVersion, compatibility) ==
    IF zigVersion.isRelease
    THEN selectOnTaggedRelease(db, zigVersion)
    ELSE selectOnDevelopmentBuild(db, zigVersion, compatibility)

----------------------------------------------------------------------------
(* publish: handlePublish *)

Ok == [status |-> 200, error |-> ""]
Reject(status, error) == [status |-> status, error |-> error]

\* env.API_TOKEN: not a string (the secret is not set), or a string
NotConfigured == [type |-> "undefined"]
Configured(token) == [type |-> "string", value |-> token]

ApiToken == "token"

\* request.headers.get("Authorization"): null, or a header value.  A value
\* is given by what split(" ") makes of it, the scheme and whether a second
\* word follows, and by what split(":") makes of the second word once it is
\* decoded (credentials)
Null == [isNull |-> TRUE]

Authorization(scheme, hasEncoded, credentials) ==
    [isNull |-> FALSE, scheme |-> scheme, hasEncoded |-> hasEncoded,
     credentials |-> credentials]

Basic(credentials) == Authorization("Basic", TRUE, credentials)

\* "ok" (200) or the response that ends the request
checkRequestAuthentication(request, expectedUsername, expectedPassword) ==
    LET authorization == request.authorization
    IN  IF authorization = Null
        THEN Reject(401, "authorization-failed")
        ELSE IF authorization.scheme = "" \/ ~authorization.hasEncoded
        THEN Reject(400, "authorization-header-format")
        ELSE IF authorization.scheme # "Basic"
        THEN Reject(400, "authorization-scheme")
        ELSE LET credentials == authorization.credentials
                 actualUsername == credentials[1]
                 actualPassword ==
                     IF Len(credentials) >= 2 THEN credentials[2] ELSE ""
             IN  IF actualUsername = "" \/ actualPassword = ""
                 THEN Reject(401, "authorization-header-format")
                 ELSE IF /\ expectedUsername = actualUsername
                         /\ expectedPassword = actualPassword
                 THEN Ok
                 ELSE Reject(401, "authorization-failed")

\* the checks handlePublish makes before it reads the body: method,
\* API_TOKEN, Authorization
CheckAccess(e, request) ==
    IF request.method # "POST"
    THEN Reject(405, "method")
    ELSE IF e.API_TOKEN.type # "string" \/ e.API_TOKEN.value = ""
    THEN Reject(500, "")
    ELSE checkRequestAuthentication(request, "admin", e.API_TOKEN.value)

\* artifacts sharing one "zls-<os>-<arch>-<version>" basename
ArtifactGroup(artifacts, a) ==
    {b \in artifacts : b.os = a.os /\ b.arch = a.arch /\ b.version = a.version}

expectedExtensions(os) ==
    IF os = "windows" THEN {"zip"} ELSE {"tar.xz", "tar.gz"}

\* mutant: no check is made
ValidateRequestSkipped(req) == Ok

\* the checks handlePublish makes before it touches the database, in order
ValidateRequest(req) ==
    LET zlsVersion == req.zlsVersion
        zigVersion == req.zigVersion
        releaseArtifacts == req.artifacts
    IN  IF zlsVersion.isRelease /\ ~zigVersion.isRelease
        THEN Reject(400, "tagged-zls-with-dev-zig")
        ELSE IF ~zlsVersion.isRelease /\ zlsVersion.patch # 0
        THEN Reject(400, "dev-patch-nonzero")
        ELSE IF \E a \in releaseArtifacts : a.fileSize = 0
        THEN Reject(400, "artifact-empty")
        ELSE IF \E a \in releaseArtifacts : a.fileShasum = "invalid"
        THEN Reject(400, "artifact-shasum-shape")
        ELSE IF \E a \in releaseArtifacts :
                   {b.extension : b \in ArtifactGroup(releaseArtifacts, a)}
                       # expectedExtensions(a.os)
        THEN Reject(400, "extension-set-mismatch")
        ELSE IF zlsVersion.isRelease /\ releaseArtifacts = {}
        THEN Reject(400, "tagged-without-artifacts")
        ELSE IF zlsVersion.major # 0
        THEN Reject(418, "teapot")
        ELSE IF zlsVersion.isRelease /\ req.compatibility # Full
        THEN Reject(400, "tagged-not-full")
        ELSE IF (releaseArtifacts = {}) # (req.compatibility = None)
        THEN Reject(400, "compatibility-mismatch")
        ELSE IF \E a, b \in releaseArtifacts : a.version # b.version
        THEN Reject(400, "version-mismatch")
        ELSE IF \E a \in releaseArtifacts : a.version # zlsVersion
        THEN Reject(400, "version-mismatch")
        ELSE Ok

newEntryValue(req, now) ==
    [date |-> now,
     artifacts |-> req.artifacts,
     zlsVersion |-> req.zlsVersion,
     zigVersion |-> req.zigVersion,
     minimumBuildZigVersion |-> req.minimumBuildZigVersion,
     minimumRuntimeZigVersion |-> req.minimumRuntimeZigVersion,
     testedZigVersions |-> <<>>]

\* mutant: a build without artifacts is published without the lookup
IsNewFailedBuildAllowed(db, req) == FALSE

\* "SELECT * FROM ZLSReleases WHERE ZLSVersion = ?1" finds no row
IsNewFailedBuild(db, req) ==
    req.artifacts = {} /\ req.zlsVersion \notin DOMAIN db

\* the rows of the tagged-release query, the new entry pushed at the end
TaggedReleasesResults(db, req, now) ==
    LET results == [i \in 1..Len(AllTaggedDesc(db)) |-> db[AllTaggedDesc(db)[i]]]
    IN  IF req.zlsVersion.isRelease /\ req.zlsVersion \notin TaggedRows(db)
        THEN Append(results, newEntryValue(req, now))
        ELSE results

NoRow == [found |-> FALSE]
Row(v) == [found |-> TRUE, ZLSVersion |-> v]

\* what the lookup of the development build's position may return: first()
\* has no ORDER BY, so any matching row
DevQuadResults(db, req) ==
    LET zlsVersion == req.zlsVersion
        rows == DevByQuad(db, zlsVersion.major, zlsVersion.minor,
                          zlsVersion.patch, zlsVersion.commitHeight)
    IN  IF zlsVersion.isRelease \/ rows = {} THEN {NoRow}
        ELSE {Row(v) : v \in rows}

artifactsAlreadyExist(db, req, result) ==
    IF req.zlsVersion.isRelease
    THEN req.zlsVersion \in TaggedRows(db)
    ELSE result.found

\* mutant: the published version is never compared with the row found
IsConflictingCommitIgnored(req, result) == FALSE

IsConflictingCommit(req, result) ==
    /\ ~req.zlsVersion.isRelease
    /\ result.found
    /\ req.zlsVersion # result.ZLSVersion

\* mutant: INSERT OR REPLACE
InsertOrReplace(db, entry) ==
    [v \in DOMAIN db \cup {entry.zlsVersion} |->
        IF v = entry.zlsVersion THEN entry ELSE db[v]]

\* "INSERT OR IGNORE INTO ZLSReleases VALUES (...)"
InsertOrIgnore(db, entry) ==
    IF entry.zlsVersion \in DOMAIN db THEN db
    ELSE [v \in DOMAIN db \cup {entry.zlsVersion} |->
            IF v = entry.zlsVersion THEN entry ELSE db[v]]

\* "UPDATE ZLSReleases SET JsonData = json_patch(JsonData, ...) WHERE ZLSVersion = ?1"
UpdateTested(db, zlsVersion, zigVersion, compatibility) ==
    [v \in DOMAIN db |->
        IF v = zlsVersion
        THEN [db[v] EXCEPT !.testedZigVersions =
                 JsonPatchTested(@, zigVersion, compatibility)]
        ELSE db[v]]

\* mutant: the insert takes effect without the update
BatchInsertOnly(db, req, now) == InsertOrIgnore(db, newEntryValue(req, now))

\* env.ZIGTOOLS_DB.batch([insert, update]): D1 runs the statements of a batch
\* as one transaction
Batch(db, req, now) ==
    UpdateTested(InsertOrIgnore(db, newEntryValue(req, now)),
                 req.zlsVersion, req.zigVersion, req.compatibility)

\* new Date(date).toISOString().slice(0, 10): the day of a timestamp
ToISODate(date) == date \div DayLength

\* shared.ts artifactsToRecord: one target per artifact that is not a tar.gz
artifactsToRecord(artifacts) ==
    {[target |-> <<a.arch, a.os>>, version |-> a.version,
      extension |-> a.extension, shasum |-> a.fileShasum, size |-> a.fileSize] :
        a \in {b \in artifacts : b.extension # "tar.gz"}}

\* its assertions: artifacts.length !== 0, and no target twice
artifactsToRecordAsserts(artifacts) ==
    /\ artifacts # {}
    /\ \A a, b \in {c \in artifacts : c.extension # "tar.gz"} :
          (a.arch = b.arch /\ a.os = b.os) => a = b

\* the ZLSIndex object built from taggedReleases.results, in insertion order
BuildIndex(results) ==
    [i \in 1..Len(results) |->
        [zlsVersion |-> results[i].zlsVersion,
         date |-> ToISODate(results[i].date),
         targets |-> artifactsToRecord(results[i].artifacts)]]

NoObject == <<[absent |-> TRUE]>>

----------------------------------------------------------------------------------------------------------------------------------------
(* Requests *)

LinuxArtifacts(version) ==
    {[os |-> "linux", arch |-> "x86_64", version |-> version,
      extension |-> ext, fileShasum |-> "sha256", fileSize |-> 1] :
        ext \in {"tar.xz", "tar.gz"}}

WindowsArtifacts(version) ==
    {[os |-> "windows", arch |-> "x86_64", version |-> version,
      extension |-> "zip", fileShasum |-> "sha256", fileSize |-> 1]}

\* publish requests: every zlsVersion with every zigVersion, pair of minimum
\* versions, compatibility and artifact list, sent by POST with the
\* credentials of the administrator
PublishRequests(zlsVersions, zigVersions, minimums, compatibilities, artifactLists) ==
    {[method |-> "POST", authorization |-> Basic(<<"admin", ApiToken>>),
      zlsVersion |-> zls, zigVersion |-> zig,
      minimumBuildZigVersion |-> m[1], minimumRuntimeZigVersion |-> m[2],
      compatibility |-> c,
      artifacts |-> UNION {IF k = "linux" THEN LinuxArtifacts(zls)
                           ELSE WindowsArtifacts(zls) : k \in a}] :
        zls \in zlsVersions, zig \in zigVersions, m \in minimums,
        c \in compatibilities, a \in artifactLists}

----------------------------------------------------------------------------
(* The handlers, one request after another *)

Idle == [pc |-> "idle"]

NoResponse == [op |-> "none"]

Init ==
    /\ store = EmptyStore
    /\ bucket = NoObject
    /\ clock = 0
    /\ published = 0
    /\ resp = NoResponse
    /\ procs = [p \in 1..MaxProcs |-> Idle]
    /\ env = [API_TOKEN |-> Configured(ApiToken)]

PublishResponse(req, r, created) ==
    [op |-> "publish", req |-> req, status |-> r.status, error |-> r.error,
     created |-> created]

\* handlePublish from the request to the response, the deferred write of
\* index.json included
HandlePublish(req) ==
    LET a == CheckAccess(env, req)
        v == IF a.status # 200 THEN a ELSE ValidateRequest(req)
    IN  IF v.status # 200
        THEN /\ resp' = PublishResponse(req, v, FALSE)
             /\ UNCHANGED <<store, bucket, clock, published, procs, env>>
        ELSE IF IsNewFailedBuild(store, req)
        THEN /\ resp' = PublishResponse(req,
                            Reject(400, "failed-build-not-updatable"), FALSE)
             /\ UNCHANGED <<store, bucket, clock, published, procs, env>>
        ELSE \E result \in DevQuadResults(store, req) :
            IF IsConflictingCommit(req, result)
            THEN /\ resp' = PublishResponse(req,
                                Reject(400, "conflicting-dev-commit"), FALSE)
                 /\ UNCHANGED <<store, bucket, clock, published, procs, env>>
            ELSE /\ published < MaxPublishes
                 /\ published' = published + 1
                 /\ store' = Batch(store, req, clock)
                 /\ bucket' = IF artifactsAlreadyExist(store, req, result)
                               THEN bucket
                               ELSE BuildIndex(TaggedReleasesResults(store, req, clock))
                 /\ resp' = PublishResponse(req, Ok,
                                ~artifactsAlreadyExist(store, req, result))
                 /\ UNCHANGED <<clock, procs, env>>

\* handleSelectVersion for a valid zig_version and compatibility
HandleSelectVersion(zigVersion, compatibility) ==
    /\ resp' = [op |-> "select", zigVersion |-> zigVersion,
                compatibility |-> compatibility,
                result |-> handleSelectVersion(store, zigVersion, compatibility)]
    /\ UNCHANGED <<store, bucket, clock, published, procs, env>>

\* a publish request arrives and is handled
Publish(requests) ==
    /\ resp = NoResponse
    /\ \E req \in requests : HandlePublish(req)

\* a select-version request arrives and is handled
Select(zigVersions) ==
    /\ resp = NoResponse
    /\ \E zigVersion \in zigVersions, compatibility \in {OnlyRuntime, Full} :
          HandleSelectVersion(zigVersion, compatibility)

\* the client takes the response
Deliver ==
    /\ resp # NoResponse
    /\ resp' = NoResponse
    /\ UNCHANGED <<store, bucket, clock, published, procs, env>>

\* time passes
Tick ==
    /\ resp = NoResponse
    /\ clock < MaxClock
    /\ clock' = clock + 1
    /\ UNCHANGED <<store, bucket, published, resp, procs, env>>

----------------------------------------------------------------------------------------------------------------------------------------
(* Spec: publishes of development and tagged versions, one after another *)

ZlsVersions ==
    {Dev(0, 1, 0, 1, "aaaaaaa"), Dev(0, 1, 0, 1, "bbbbbbb"),
     Dev(0, 1, 1, 1, "bbbbbbb"), Tagged(0, 1, 0), Tagged(0, 2, 0)}

ZigVersions == {Tagged(0, 1, 0), Dev(0, 2, 0, 1, "aaaaaaa")}

\* builds with one pair of minimum versions and every artifact list, and
\* windows-only builds with another pair
Requests ==
    PublishRequests(ZlsVersions, ZigVersions,
                    {<<Tagged(0, 1, 0), Tagged(0, 0, 1)>>}, VersionCompatibility,
                    {{}, {"linux"}, {"linux", "windows"}})
    \cup
    PublishRequests(ZlsVersions, ZigVersions,
                    {<<Tagged(0, 0, 1), Tagged(0, 1, 0)>>}, VersionCompatibility,
                    {{"windows"}})

Queries == {Tagged(0, 1, 0), Dev(0, 1, 0, 1, "aaaaaaa")}

Next == Publish(Requests) \/ Select(Queries) \/ Deliver \/ Tick

Spec == Init /\ [][Next]_vars

----------------------------------------------------------------------------
(* SpecDev: development builds of one release cycle and their selection *)

Lowest == Dev(0, 1, 0, 1, "aaaaaaa")
Highest == Dev(0, 1, 0, MaxHeight, "aaaaaaa")

DevZlsVersions == {Dev(0, 1, 0, h, "aaaaaaa") : h \in 1..MaxHeight}

Beyond == Dev(0, 1, 0, MaxHeight + 1, "aaaaaaa")

\* another commit at the height of Highest: the two compare equal
Tie == Dev(0, 1, 0, MaxHeight, "bbbbbbb")

DevZigVersions == {Lowest, Highest, Tie, Beyond}

DevMinimums == {<<Lowest, Lowest>>, <<Highest, Lowest>>}

DevRequests ==
    PublishRequests(DevZlsVersions, DevZigVersions, DevMinimums,
                    VersionCompatibility, {{}, {"linux"}})

DevQueries ==
    {Dev(0, 1, 0, h, "aaaaaaa") : h \in 0..(MaxHeight + 2)}
        \cup {Tie}

NextDev == Publish(DevRequests) \/ Select(DevQueries) \/ Deliver

SpecDev == Init /\ [][NextDev]_vars

----------------------------------------------------------------------------
(* SpecTagged: tagged releases, a development build, and their selection *)

TaggedZlsVersions ==
    {Tagged(0, 1, 0), Tagged(0, 1, 1), Tagged(0, 2, 0), Dev(0, 2, 0, 1, "aaaaaaa")}

TaggedZigVersions == {Tagged(0, 1, 0), Tagged(0, 2, 0)}

TaggedMinimums ==
    {<<Tagged(0, 0, 1), Tagged(0, 0, 1)>>, <<Tagged(0, 2, 0), Tagged(0, 0, 1)>>,
     <<Tagged(0, 0, 1), Tagged(0, 2, 0)>>}

TaggedRequests ==
    PublishRequests(TaggedZlsVersions, TaggedZigVersions, TaggedMinimums,
                    VersionCompatibility, {{}, {"linux"}})

TaggedQueries ==
    {Tagged(0, 0, 0), Tagged(0, 0, 2), Tagged(0, 1, 0), Tagged(0, 1, 5),
     Tagged(0, 2, 0), Tagged(0, 3, 0),
     Dev(0, 0, 0, 1, "aaaaaaa"), Dev(0, 1, 0, 1, "aaaaaaa"),
     Dev(0, 2, 0, 1, "aaaaaaa"), Dev(0, 2, 0, 2, "aaaaaaa"),
     Dev(0, 3, 0, 1, "aaaaaaa")}

NextTagged == Publish(TaggedRequests) \/ Select(TaggedQueries) \/ Deliver

SpecTagged == Init /\ [][NextTagged]_vars

----------------------------------------------------------------------------
(* SpecHandoff: a cycle with development builds next to tagged releases, *)
(* queried by development builds of that cycle and of later ones         *)

HandoffZlsVersions ==
    {Dev(0, 1, 0, 1, "aaaaaaa"), Dev(0, 1, 0, 2, "aaaaaaa"),
     Tagged(0, 1, 0), Tagged(0, 2, 0)}

HandoffZigVersions == {Tagged(0, 1, 1)}

HandoffMinimums ==
    {<<Tagged(0, 1, 1), Tagged(0, 1, 1)>>, <<Tagged(0, 1, 1), Tagged(0, 0, 1)>>}

HandoffRequests ==
    PublishRequests(HandoffZlsVersions, HandoffZigVersions, HandoffMinimums,
                    VersionCompatibility, {{}, {"linux"}})

HandoffQueries ==
    {Dev(0, 1, 0, 1, "aaaaaaa"), Dev(0, 1, 1, 1, "aaaaaaa"),
     Dev(0, 1, 2, 1, "aaaaaaa"), Dev(0, 2, 0, 1, "aaaaaaa"),
     Dev(0, 2, 1, 1, "aaaaaaa"), Dev(0, 3, 0, 1, "aaaaaaa")}

NextHandoff == Publish(HandoffRequests) \/ Select(HandoffQueries) \/ Deliver

SpecHandoff == Init /\ [][NextHandoff]_vars

----------------------------------------------------------------------------
(* SpecEnclosed: isVersionEnclosedInFailure applied to a sorted list of *)
(* tested versions and a version                                        *)

\* development versions of one cycle, two of them at the same commit height,
\* and the tagged version that ends the cycle
EnclosedVersions ==
    {Dev(0, 1, 0, h, "aaaaaaa") : h \in 1..MaxHeight}
        \cup {Dev(0, 1, 0, MaxHeight, "bbbbbbb"), Tagged(0, 1, 0)}

\* the keys of testedZigVersions are different strings, and the list made of
\* them is sorted in ascending order
SortedTestedVersions ==
    {t \in UNION {[1..n -> [version : EnclosedVersions, isSuccess : BOOLEAN]] :
                    n \in 1..MaxTested} :
        /\ \A i, j \in 1..Len(t) : i # j => t[i].version # t[j].version
        /\ \A i \in 1..(Len(t) - 1) :
              Order(t[i].version, t[i + 1].version) \in {lt, eq}}

EnclosedQueries ==
    EnclosedVersions \cup {Dev(0, 1, 0, 0, "aaaaaaa"),
                           Dev(0, 1, 0, MaxHeight + 1, "aaaaaaa")}

InitEnclosed ==
    /\ store = EmptyStore
    /\ bucket = NoObject
    /\ clock = 0
    /\ published = 0
    /\ procs = [p \in 1..MaxProcs |-> Idle]
    /\ env = [API_TOKEN |-> Configured(ApiToken)]
    /\ \E t \in SortedTestedVersions, v \in EnclosedQueries :
          resp = [op |-> "input", testedVersions |-> t, version |-> v]

\* isVersionEnclosedInFailure(testedVersions, version) is called
CallIsVersionEnclosedInFailure ==
    /\ resp.op = "input"
    /\ resp' = [op |-> "enclosed", testedVersions |-> resp.testedVersions,
                version |-> resp.version,
                result |-> isVersionEnclosedInFailure(resp.testedVersions,
                                                      resp.version)]
    /\ UNCHANGED <<store, bucket, clock, published, procs, env>>

NextEnclosed == CallIsVersionEnclosedInFailure

SpecEnclosed == InitEnclosed /\ [][NextEnclosed]_vars

----------------------------------------------------------------------------
(* SpecAuth: publish requests of every method and Authorization header,     *)
(* with and without API_TOKEN, for versions of major 0 and 1                *)

AuthZlsVersions ==
    {Tagged(0, 1, 0), Dev(0, 1, 0, 1, "aaaaaaa"), Tagged(1, 0, 0),
     Dev(1, 0, 0, 1, "aaaaaaa"), Dev(1, 0, 1, 1, "aaaaaaa")}

AuthZigVersions == {Tagged(0, 1, 0), Dev(0, 2, 0, 1, "aaaaaaa")}

\* bodies with well-formed artifact lists, and bodies of the major 1
\* versions whose linux artifact lacks its tar.gz
AuthBodies ==
    LET bodies == PublishRequests(AuthZlsVersions, AuthZigVersions,
                                  {<<Tagged(0, 1, 0), Tagged(0, 0, 1)>>},
                                  {None, Full}, {{}, {"linux"}})
    IN  bodies \cup
        {[b EXCEPT !.artifacts = {a \in @ : a.extension = "tar.xz"}] :
            b \in {c \in bodies : c.zlsVersion.major # 0 /\ c.artifacts # {}}}

Methods == {"POST", "GET"}

\* no header, "invalid", "Bearer foo", and Basic with the credentials ":",
\* "admin", "wrong:token", "admin:wrong", "admin:token", "admin:token:x"
Authorizations ==
    {Null, Authorization("invalid", FALSE, <<"">>),
     Authorization("Bearer", TRUE, <<"foo">>),
     Basic(<<"", "">>), Basic(<<"admin">>), Basic(<<"wrong", ApiToken>>),
     Basic(<<"admin", "wrong">>), Basic(<<"admin", ApiToken>>),
     Basic(<<"admin", ApiToken, "x">>)}

AuthRequests ==
    {[b EXCEPT !.method = m, !.authorization = a] :
        b \in AuthBodies, m \in Methods, a \in Authorizations}

\* the worker is deployed without API_TOKEN, with an empty one, or with one
InitAuth ==
    /\ store = EmptyStore
    /\ bucket = NoObject
    /\ clock = 0
    /\ published = 0
    /\ resp = NoResponse
    /\ procs = [p \in 1..MaxProcs |-> Idle]
    /\ \E token \in {NotConfigured, Configured(""), Configured(ApiToken)} :
          env = [API_TOKEN |-> token]

NextAuth == Publish(AuthRequests) \/ Deliver

SpecAuth == InitAuth /\ [][NextAuth]_vars

----------------------------------------------------------------------------
(* SemanticVersion.parse and toString on version strings *)

DigitChars == <<"0", "1", "2", "3", "4", "5", "6", "7", "8", "9">>

HexChars ==
    {DigitChars[i] : i \in 1..10} \cup
    {"a", "b", "c", "d", "e", "f", "A", "B", "C", "D", "E", "F"}

Char(string, i) == SubSeq(string, i, i)

\* \d+
IsDigits(string) ==
    /\ Len(string) > 0
    /\ \A i \in 1..Len(string) : \E d \in 1..10 : Char(string, i) = DigitChars[d]

\* (0|[1-9]\d*)
IsNumericIdentifier(string) ==
    IsDigits(string) /\ (string = "0" \/ Char(string, 1) # "0")

\* [0-9a-fA-F]{7,9}
IsCommitID(string) ==
    /\ Len(string) \in 7..9
    /\ \A i \in 1..Len(string) : Char(string, i) \in HexChars

\* the index of the first c in string, 0 when there is none
IndexOf(string, c) ==
    IF \E i \in 1..Len(string) : Char(string, i) = c
    THEN CHOOSE i \in 1..Len(string) :
            /\ Char(string, i) = c
            /\ \A j \in 1..(i - 1) : Char(string, j) # c
    ELSE 0

\* the length of the longest prefix of digits
DigitPrefix(string) ==
    CHOOSE n \in 0..Len(string) :
        /\ \A i \in 1..n : \E d \in 1..10 : Char(string, i) = DigitChars[d]
        /\ n < Len(string) => ~\E d \in 1..10 : Char(string, n + 1) = DigitChars[d]

NoMatch == [matched |-> FALSE]

\* the characters from the i-th to the j-th, as many of them as there are
Slice(string, i, j) ==
    LET to == IF j < Len(string) THEN j ELSE Len(string)
    IN  IF i > to THEN "" ELSE SubSeq(string, i, to)

\* string.match(regex): the five groups of
\* ^(0|[1-9]\d*)\.(0|[1-9]\d*)\.(0|[1-9]\d*)(?:-dev\.(\d+)\+([0-9a-fA-F]{7,9}))?$
\* with "" for a group that did not take part
Match(string) ==
    LET d1 == IndexOf(string, ".")
        g1 == Slice(string, 1, d1 - 1)
        r1 == Slice(string, d1 + 1, Len(string))
        d2 == IndexOf(r1, ".")
        g2 == Slice(r1, 1, d2 - 1)
        r2 == Slice(r1, d2 + 1, Len(r1))
        n == DigitPrefix(r2)
        g3 == Slice(r2, 1, n)
        tail == Slice(r2, n + 1, Len(r2))
        r3 == Slice(tail, 6, Len(tail))
        plus == IndexOf(r3, "+")
        g4 == Slice(r3, 1, plus - 1)
        g5 == Slice(r3, plus + 1, Len(r3))
    IN  IF d1 = 0 \/ d2 = 0 THEN NoMatch
        ELSE IF ~(/\ IsNumericIdentifier(g1) /\ IsNumericIdentifier(g2)
                  /\ IsNumericIdentifier(g3))
        THEN NoMatch
        ELSE IF tail = ""
        THEN [matched |-> TRUE, g1 |-> g1, g2 |-> g2, g3 |-> g3, g4 |-> "", g5 |-> ""]
        ELSE IF Slice(tail, 1, 5) # "-dev." \/ plus = 0 THEN NoMatch
        ELSE IF ~(IsDigits(g4) /\ IsCommitID(g5)) THEN NoMatch
        ELSE [matched |-> TRUE, g1 |-> g1, g2 |-> g2, g3 |-> g3, g4 |-> g4, g5 |-> g5]

\* the 32 digits of the test of oversize numbers
Nines == "99999999999999999999999999999999"

\* the number 1e32, which parseInt makes of Nines: it stands above every
\* other number of the model, whose strings have at most nine digits
E32 == 2147483647

RECURSIVE Value(_)
Value(digits) ==
    IF digits = "" THEN 0
    ELSE 10 * Value(SubSeq(digits, 1, Len(digits) - 1))
         + ((CHOOSE d \in 1..10 : DigitChars[d] = Char(digits, Len(digits))) - 1)

\* parseInt of a string of digits
ParseInt(digits) == IF digits = Nines THEN E32 ELSE Value(digits)

\* Number.prototype.toString of a number that is not negative
RECURSIVE NumberToString(_)
NumberToString(n) ==
    IF n = E32 THEN "1e+32"
    ELSE IF n < 10 THEN DigitChars[n + 1]
    ELSE NumberToString(n \div 10) \o DigitChars[(n % 10) + 1]

\* SemanticVersion.parse: null, or the version; its assertions hold for
\* every string the regex matches
parse(string) ==
    LET match == Match(string)
    IN  IF ~match.matched THEN Null
        ELSE IF match.g4 = ""
        THEN Tagged(ParseInt(match.g1), ParseInt(match.g2), ParseInt(match.g3))
        ELSE Dev(ParseInt(match.g1), ParseInt(match.g2), ParseInt(match.g3),
                 ParseInt(match.g4), match.g5)

Returned(string) == [kind |-> "string", value |-> string]

\* SemanticVersion.toString: the string, or the AssertionError of
\* assert(this.commitHeight && this.commitID)
toString(version) ==
    LET a == NumberToString(version.major) \o "." \o
             NumberToString(version.minor) \o "." \o
             NumberToString(version.patch)
    IN  IF version.isRelease THEN Returned(a)
        ELSE IF version.commitHeight = 0 \/ version.commitID = ""
        THEN AssertionError("commitHeight && commitID")
        ELSE Returned(a \o "-dev." \o NumberToString(version.commitHeight)
                        \o "+" \o version.commitID)

----------------------------------------------------------------------------
(* SpecParse: a version string is parsed, written and parsed again *)

\* strings the tests call invalid
InvalidStrings ==
    {"", "0", "0.0", "0.0.", "0.0.0-dev", "0.0.0+dev", "0.0.0-dev.",
     "0.0.0+dev.", "0.0.0-dev.1", "0.0.0+dev.1", "1.0.0-dev+aaaaaaaaa",
     "1.0.0-dev.1-aaaaaaaaa", "1.0.0-dev.1+aaaaa", "1.0.0-dev.1+aaaaaaaaaaaaa",
     Nines \o ".0.0", "1." \o Nines \o ".0", "1.0." \o Nines,
     "1.0.0-dev." \o Nines \o "+aaaaaaaaa"}

\* strings the tests call valid or compare
ValidStrings ==
    {"0.0.0", "0.0.0-dev.1+aaaaaaaaa", "0.0.0-dev.20+aaaaaaaaa",
     "0.0.0-dev.1+abcdef123", "0.13.0-dev.249+ed75f6256",
     "0.13.0-dev.34+93b7bbd", "0.12.0-dev.722+412d863ba",
     "1.0.0-dev.0+aaaaaaaaa", "1.0.0-dev.1+bbbbbbbbb"}

\* every number and commitID in every place
ShapedStrings ==
    LET numbers == {"0", "7", "10", "01"}
        ids == {"aaaaaaa", "ABCdef12", "aaaaaa", "ggggggg"}
    IN  {M \o ".0.0" : M \in numbers} \cup {"0." \o m \o ".0" : m \in numbers}
        \cup {"0.0." \o p : p \in numbers}
        \cup {"0.1.0-dev." \o h \o "+" \o id : h \in numbers, id \in ids}

VersionStrings == InvalidStrings \cup ValidStrings \cup ShapedStrings

InitParse ==
    /\ store = EmptyStore
    /\ bucket = NoObject
    /\ clock = 0
    /\ published = 0
    /\ procs = [p \in 1..MaxProcs |-> Idle]
    /\ env = [API_TOKEN |-> Configured(ApiToken)]
    /\ \E string \in VersionStrings : resp = [op |-> "string", string |-> string]

\* SemanticVersion.parse(string)
CallParse ==
    /\ resp.op = "string"
    /\ resp' = [op |-> "parsed", string |-> resp.string,
                version |-> parse(resp.string)]
    /\ UNCHANGED <<store, bucket, clock, published, procs, env>>

\* version.toString() of a parsed version
CallToString ==
    /\ resp.op = "parsed"
    /\ resp.version # Null
    /\ resp' = [op |-> "written", string |-> resp.string,
                version |-> resp.version, written |-> toString(resp.version)]
    /\ UNCHANGED <<store, bucket, clock, published, procs, env>>

\* SemanticVersion.parse of the string written
CallParseAgain ==
    /\ resp.op = "written"
    /\ resp.written.kind = "string"
    /\ resp' = [op |-> "reparsed", string |-> resp.string,
                version |-> resp.version, written |-> resp.written,
                again |-> parse(resp.written.value)]
    /\ UNCHANGED <<store, bucket, clock, published, procs, env>>

NextParse == CallParse \/ CallToString \/ CallParseAgain

SpecParse == InitParse /\ [][NextParse]_vars

----------------------------------------------------------------------------
(* SpecOrder: SemanticVersion.order on three versions *)

\* tagged versions and development versions of eight (major, minor, patch),
\* two of the development versions of each differing in the commitID alone
OrderVersions ==
    UNION {{Tagged(M, m, p), Dev(M, m, p, 0, "aaaaaaa"), Dev(M, m, p, 1, "aaaaaaa"),
            Dev(M, m, p, 1, "bbbbbbb"), Dev(M, m, p, 2, "aaaaaaa")} :
              M \in 0..1, m \in 0..1, p \in 0..1}

InitOrder ==
    /\ store = EmptyStore
    /\ bucket = NoObject
    /\ clock = 0
    /\ published = 0
    /\ procs = [p \in 1..MaxProcs |-> Idle]
    /\ env = [API_TOKEN |-> Configured(ApiToken)]
    /\ \E a \in OrderVersions, b \in OrderVersions, c \in OrderVersions :
          resp = [op |-> "versions", a |-> a, b |-> b, c |-> c]

\* SemanticVersion.order is called on the pairs of the three versions
CallOrder ==
    /\ resp.op = "versions"
    /\ resp' = [op |-> "order", a |-> resp.a, b |-> resp.b, c |-> resp.c,
                ab |-> Order(resp.a, resp.b), ba |-> Order(resp.b, resp.a),
                bc |-> Order(resp.b, resp.c), ac |-> Order(resp.a, resp.c)]
    /\ UNCHANGED <<store, bucket, clock, published, procs, env>>

NextOrder == CallOrder

SpecOrder == InitOrder /\ [][NextOrder]_vars

----------------------------------------------------------------------------
(* handlePublish step by step: concurrent requests interleave at each await *)

Running(req, pc, now, results, exists) ==
    [pc |-> pc, req |-> req, now |-> now, results |-> results,
     artifactsAlreadyExist |-> exists]

Done(req, status, created) ==
    [pc |-> "done", req |-> req, status |-> status, created |-> created]

Canceled(req, at) == [pc |-> "canceled", req |-> req, at |-> at]

\* the request arrives: validation and newEntryValue, up to the first await
PublishReceive(p, requests) ==
    /\ procs[p].pc = "idle"
    /\ \E req \in requests :
          LET a == CheckAccess(env, req)
              v == IF a.status # 200 THEN a ELSE ValidateRequest(req)
          IN  procs' = [procs EXCEPT ![p] =
                  IF v.status # 200 THEN Done(req, v.status, FALSE)
                  ELSE Running(req,
                               IF req.artifacts = {} THEN "exists" ELSE "tagged",
                               clock, <<>>, FALSE)]
    /\ UNCHANGED <<store, bucket, clock, published, resp, env>>

\* await "SELECT * FROM ZLSReleases WHERE ZLSVersion = ?1"
PublishSelectExisting(p) ==
    /\ procs[p].pc = "exists"
    /\ procs' = [procs EXCEPT ![p] =
          IF IsNewFailedBuild(store, @.req) THEN Done(@.req, 400, FALSE)
          ELSE [@ EXCEPT !.pc = "tagged"]]
    /\ UNCHANGED <<store, bucket, clock, published, resp, env>>

\* await the query of all tagged releases; a tagged version is looked up in
\* its results and pushed when absent
PublishSelectTagged(p) ==
    /\ procs[p].pc = "tagged"
    /\ procs' = [procs EXCEPT ![p] =
          Running(@.req,
                  IF @.req.zlsVersion.isRelease THEN "batch" ELSE "position",
                  @.now, TaggedReleasesResults(store, @.req, @.now),
                  artifactsAlreadyExist(store, @.req, NoRow))]
    /\ UNCHANGED <<store, bucket, clock, published, resp, env>>

\* await the lookup of the development build's position
PublishSelectPosition(p) ==
    /\ procs[p].pc = "position"
    /\ \E result \in DevQuadResults(store, procs[p].req) :
          procs' = [procs EXCEPT ![p] =
              IF IsConflictingCommit(@.req, result) THEN Done(@.req, 400, FALSE)
              ELSE [@ EXCEPT !.pc = "batch",
                             !.artifactsAlreadyExist =
                                 artifactsAlreadyExist(store, procs[p].req,
                                                       result)]]
    /\ UNCHANGED <<store, bucket, clock, published, resp, env>>

\* await batch([insert, update]), then the response; the write of index.json
\* is handed to ctx.waitUntil when the record is taken to be new
PublishBatch(p) ==
    /\ procs[p].pc = "batch"
    /\ store' = Batch(store, procs[p].req, procs[p].now)
    /\ procs' = [procs EXCEPT ![p] =
          IF @.artifactsAlreadyExist THEN Done(@.req, 200, FALSE)
          ELSE [@ EXCEPT !.pc = "put"]]
    /\ UNCHANGED <<bucket, clock, published, resp, env>>

\* ZIGTOOLS_BUILDS.put("index.json", ...) completes
PublishPutIndex(p) ==
    /\ procs[p].pc = "put"
    /\ bucket' = BuildIndex(procs[p].results)
    /\ procs' = [procs EXCEPT ![p] = Done(@.req, 200, TRUE)]
    /\ UNCHANGED <<store, clock, published, resp, env>>

\* the request is canceled while the handler waits for the database
PublishCancel(p) ==
    /\ procs[p].pc \in {"exists", "tagged", "position", "batch"}
    /\ procs' = [procs EXCEPT ![p] = Canceled(@.req, @.pc)]
    /\ UNCHANGED <<store, bucket, clock, published, resp, env>>

----------------------------------------------------------------------------
(* SpecConc: MaxProcs publish requests handled concurrently *)

ConcZlsVersions ==
    {Dev(0, 1, 0, 1, "aaaaaaa"), Dev(0, 1, 0, 1, "bbbbbbb"), Tagged(0, 1, 0)}

ConcZigVersions == {Tagged(0, 1, 0), Tagged(0, 2, 0)}

ConcRequests ==
    PublishRequests(ConcZlsVersions, ConcZigVersions,
                    {<<Tagged(0, 0, 1), Tagged(0, 0, 1)>>}, VersionCompatibility,
                    {{}, {"linux"}})

NextConc ==
    \/ \E p \in 1..MaxProcs : PublishReceive(p, ConcRequests)
    \/ \E p \in 1..MaxProcs : PublishSelectExisting(p)
    \/ \E p \in 1..MaxProcs : PublishSelectTagged(p)
    \/ \E p \in 1..MaxProcs : PublishSelectPosition(p)
    \/ \E p \in 1..MaxProcs : PublishBatch(p)
    \/ \E p \in 1..MaxProcs : PublishPutIndex(p)
    \/ \E p \in 1..MaxProcs : PublishCancel(p)
    \/ Tick

SpecConc == Init /\ [][NextConc]_vars

----------------------------------------------------------------------------
(* SpecLive: concurrent publishes whose write of index.json may be rejected; *)
(* a handler that was not canceled runs to its end                           *)

PutFailed(req) == [pc |-> "putfailed", req |-> req]

\* ZIGTOOLS_BUILDS.put("index.json", ...) rejects: the promise handed to
\* ctx.waitUntil settles and nothing follows it
PublishPutIndexFails(p) ==
    /\ procs[p].pc = "put"
    /\ procs' = [procs EXCEPT ![p] = PutFailed(@.req)]
    /\ UNCHANGED <<store, bucket, clock, published, resp, env>>

\* the steps of request p after its arrival
PublishRun(p) ==
    \/ PublishSelectExisting(p)
    \/ PublishSelectTagged(p)
    \/ PublishSelectPosition(p)
    \/ PublishBatch(p)
    \/ PublishPutIndex(p)
    \/ PublishPutIndexFails(p)

NextLive ==
    \/ \E p \in 1..MaxProcs : PublishReceive(p, ConcRequests)
    \/ \E p \in 1..MaxProcs : PublishRun(p)
    \/ \E p \in 1..MaxProcs : PublishCancel(p)

SpecLive ==
    /\ Init
    /\ [][NextLive]_vars
    /\ \A p \in 1..MaxProcs : WF_vars(PublishRun(p))

----------------------------------------------------------------------------
(* Properties *)

\* the minimum Zig version of a record under a requested compatibility:
\* Full: the larger of the build and runtime minimum; OnlyRuntime: the runtime one
EffectiveMinimum(r, compatibility) ==
    IF compatibility = Full
    THEN IF Order(r.minimumBuildZigVersion, r.minimumRuntimeZigVersion) = gt
         THEN r.minimumBuildZigVersion
         ELSE r.minimumRuntimeZigVersion
    ELSE r.minimumRuntimeZigVersion

AtMost(a, b) == Order(a, b) \in {lt, eq}

\* a tested entry counts as a failure under the requested compatibility
TestedFailed(e, compatibility) ==
    ~(e.compat = Full \/ (e.compat = OnlyRuntime /\ compatibility = OnlyRuntime))

\* both nearest tested neighbours of v failed (a neighbour equal to v is
\* both); tested versions that compare equal share a position, which failed
\* when all of them failed
EnclosedInFailure(tested, v, compatibility) ==
    LET entries == {tested[i] : i \in 1..Len(tested)}
        below == {e \in entries : AtMost(e.version, v)}
        above == {e \in entries : AtMost(v, e.version)}
        nearestBelow == {e \in below : \A f \in below : AtMost(f.version, e.version)}
        nearestAbove == {e \in above : \A f \in above : AtMost(e.version, f.version)}
    IN  /\ \A e \in nearestBelow : TestedFailed(e, compatibility)
        /\ \A e \in nearestAbove : TestedFailed(e, compatibility)

SelectedDev ==
    /\ resp.op = "select"
    /\ ~resp.zigVersion.isRelease
    /\ resp.result.kind = "release"

Candidates(v) ==
    {w \in DOMAIN store : ~w.isRelease /\ w.major = v.major /\ w.minor = v.minor}

Admitting(v, compatibility) ==
    {w \in Candidates(v) : AtMost(EffectiveMinimum(store[w], compatibility), v)}

\* C7: among the development records of zigVersion's cycle, the record
\* returned is the one with the highest commitHeight whose effective minimum
\* is at or below zigVersion, whatever the minimums of the records between
C7_HighestAdmittingCandidate ==
    (SelectedDev /\ Candidates(resp.zigVersion) # {}) =>
        /\ resp.result.data.zlsVersion
              \in Admitting(resp.zigVersion, resp.compatibility)
        /\ \A w \in Admitting(resp.zigVersion, resp.compatibility) :
              w.commitHeight <= resp.result.data.zlsVersion.commitHeight

\* the record returned comes after a candidate whose minimum is above zigVersion
C7_Witness ==
    /\ SelectedDev
    /\ \E w \in Candidates(resp.zigVersion) :
          /\ w \notin Admitting(resp.zigVersion, resp.compatibility)
          /\ w.commitHeight < resp.result.data.zlsVersion.commitHeight

SelectedTagged == resp.op = "select" /\ resp.zigVersion.isRelease

\* the tagged records with the (major, minor) of v
TaggedOfMinor(v) ==
    {w \in DOMAIN store : w.isRelease /\ w.major = v.major /\ w.minor = v.minor}

AllTagged == {w \in DOMAIN store : w.isRelease}

\* C8: for a tagged zigVersion with a tagged ZLS record of the same
\* (major, minor), selection returns the record with the highest patch,
\* whatever the compatibility, the minimum versions and the tested versions
C8_HighestPatchOfMinor ==
    (SelectedTagged /\ TaggedOfMinor(resp.zigVersion) # {}) =>
        /\ resp.result.kind = "release"
        /\ resp.result.data.zlsVersion \in TaggedOfMinor(resp.zigVersion)
        /\ resp.result.data = store[resp.result.data.zlsVersion]
        /\ \A w \in TaggedOfMinor(resp.zigVersion) :
              w.patch <= resp.result.data.zlsVersion.patch

\* of two records of the minor the later is returned although its runtime
\* minimum is above zigVersion and it was never tested with zigVersion
C8_Witness ==
    /\ SelectedTagged
    /\ resp.compatibility = Full
    /\ Cardinality(TaggedOfMinor(resp.zigVersion)) = 2
    /\ resp.result.kind = "release"
    /\ Order(resp.zigVersion, resp.result.data.minimumRuntimeZigVersion) = lt
    /\ resp.zigVersion \notin TestedKeys(resp.result.data.testedZigVersions)

\* the tagged record that no other tagged record precedes
OldestTagged == CHOOSE w \in AllTagged : \A u \in AllTagged : AtMost(w, u)

\* C9: for a tagged zigVersion without a tagged ZLS record of its
\* (major, minor) the result is Unsupported when a tagged record exists and
\* the oldest one has a minimumRuntimeZigVersion above zigVersion, and
\* TaggedReleaseIncompatible otherwise, an empty store included
C9_TaggedFailureCodes ==
    (SelectedTagged /\ TaggedOfMinor(resp.zigVersion) = {}) =>
        resp.result =
            IF /\ AllTagged # {}
               /\ Order(store[OldestTagged].minimumRuntimeZigVersion,
                        resp.zigVersion) = gt
            THEN Failure(Unsupported)
            ELSE Failure(TaggedReleaseIncompatible)

\* Unsupported is answered although a later tagged record admits zigVersion
C9_Witness ==
    /\ SelectedTagged
    /\ resp.result = Failure(Unsupported)
    /\ \E w \in AllTagged :
          AtMost(store[w].minimumRuntimeZigVersion, resp.zigVersion)

\* C10: for a development zigVersion a returned record is a development
\* record of zigVersion's (major, minor), or the latest tagged record and
\* then the store has no development record of that (major, minor); with
\* neither kind of record the result is DevelopmentBuildUnsupported
C10_DevelopmentCandidates ==
    (resp.op = "select" /\ ~resp.zigVersion.isRelease) =>
        /\ resp.result.kind = "release" =>
              \/ resp.result.data.zlsVersion \in Candidates(resp.zigVersion)
              \/ /\ Candidates(resp.zigVersion) = {}
                 /\ resp.result.data.zlsVersion \in AllTagged
                 /\ \A w \in AllTagged : AtMost(w, resp.result.data.zlsVersion)
        /\ (Candidates(resp.zigVersion) = {} /\ AllTagged = {}) =>
              resp.result = Failure(DevelopmentBuildUnsupported)

\* the latest of two tagged records is returned for a cycle without
\* development records while the store holds a development record of another
C10_Witness ==
    /\ SelectedDev
    /\ resp.result.data.zlsVersion.isRelease
    /\ Cardinality(AllTagged) = 2
    /\ \E w \in DOMAIN store : ~w.isRelease

\* two development versions at one position of the commit history
SamePosition(v, w) ==
    /\ ~v.isRelease /\ ~w.isRelease
    /\ v.major = w.major /\ v.minor = w.minor
    /\ v.commitHeight = w.commitHeight

UniquePositions(db) ==
    \A v, w \in DOMAIN db : SamePosition(v, w) => v.commitID = w.commitID

\* the step is a publish request being answered
PublishStep == resp = NoResponse /\ resp'.op = "publish"

C2_Step ==
    /\ UniquePositions(store')
    /\ \A v \in DOMAIN store : v \in DOMAIN store'
    /\ (/\ PublishStep
        /\ \E w \in DOMAIN store :
              /\ SamePosition(resp'.req.zlsVersion, w)
              /\ resp'.req.zlsVersion.commitID # w.commitID)
        => (resp'.status = 400 /\ store' = store)

\* C2: publishes handled one after another never leave two development
\* records with the same (major, minor, commitHeight) and different commitId:
\* records stay, and a publish of another commitId at a taken position is
\* answered 400 and changes nothing
C2_FirstCommitWins == [][C2_Step]_vars

\* a publish of a second commit at a taken position has been rejected
C2_Witness ==
    /\ resp.op = "publish"
    /\ resp.status = 400
    /\ resp.error = "conflicting-dev-commit"
    /\ \E w \in DOMAIN store :
          /\ SamePosition(resp.req.zlsVersion, w)
          /\ resp.req.zlsVersion.commitID # w.commitID

Accepted == resp.op = "publish" /\ resp.status = 200

\* C3: after a publish answered 200 the record of zlsVersion has
\* testedZigVersions[zigVersion] = compatibility, for a created record and
\* for an updated one
C3_PublishedCompatibilityStored ==
    Accepted =>
        /\ resp.req.zlsVersion \in DOMAIN store
        /\ TestedGet(store[resp.req.zlsVersion].testedZigVersions,
                     resp.req.zigVersion) = resp.req.compatibility

\* a failure has been published for the Zig version the record was built with
C3_Witness ==
    /\ Accepted
    /\ ~resp.created
    /\ resp.req.compatibility = None
    /\ store[resp.req.zlsVersion].zigVersion = resp.req.zigVersion
    /\ Len(store[resp.req.zlsVersion].testedZigVersions) = 2

\* C4: every record has testedZigVersions[zigVersion] = Full for the
\* zigVersion of the publish that created it
C4_BuiltVersionTestedFull ==
    \A v \in DOMAIN store :
        TestedGet(store[v].testedZigVersions, store[v].zigVersion) = Full

\* the step is an accepted publish for a version that has a record
UpdateStep ==
    /\ PublishStep
    /\ resp'.status = 200
    /\ resp'.req.zlsVersion \in DOMAIN store

OtherEntries(tested, key) ==
    {tested[i] : i \in {j \in 1..Len(tested) : tested[j].version # key}}

C6_Step ==
    UpdateStep =>
        LET zls == resp'.req.zlsVersion
            zig == resp'.req.zigVersion
        IN  /\ DOMAIN store' = DOMAIN store
            /\ \A w \in DOMAIN store \ {zls} : store'[w] = store[w]
            /\ store'[zls].date = store[zls].date
            /\ store'[zls].zlsVersion = store[zls].zlsVersion
            /\ store'[zls].zigVersion = store[zls].zigVersion
            /\ store'[zls].minimumBuildZigVersion
                  = store[zls].minimumBuildZigVersion
            /\ store'[zls].minimumRuntimeZigVersion
                  = store[zls].minimumRuntimeZigVersion
            /\ store'[zls].artifacts = store[zls].artifacts
            /\ OtherEntries(store'[zls].testedZigVersions, zig)
                  = OtherEntries(store[zls].testedZigVersions, zig)

\* C6: an accepted publish for a version that has a record changes only the
\* entry testedZigVersions[zigVersion] of that record: its date, zigVersion,
\* minimum versions, artifacts and other tested entries stay, and so does
\* every other record
C6_UpdateChangesOneEntry == [][C6_Step]_vars

\* a later publish with other artifacts and minimum versions was accepted for
\* a record of an earlier date, next to another record
C6_Witness ==
    /\ Accepted
    /\ ~resp.created
    /\ Cardinality(DOMAIN store) >= 2
    /\ store[resp.req.zlsVersion].artifacts # resp.req.artifacts
    /\ resp.req.artifacts # {}
    /\ store[resp.req.zlsVersion].date < clock
    /\ store[resp.req.zlsVersion].minimumBuildZigVersion
          # resp.req.minimumBuildZigVersion

\* the record of version v carries the entry of the publish that created it
CarriesOwnEntry(db, v) == db[v].zigVersion \in TestedKeys(db[v].testedZigVersions)

C5_Step ==
    \A v \in DOMAIN store' :
        /\ CarriesOwnEntry(store', v)
        /\ v \notin DOMAIN store =>
              \E p \in 1..MaxProcs :
                  /\ procs[p].pc = "batch"
                  /\ procs[p].req.zlsVersion = v
                  /\ store'[v].testedZigVersions =
                        <<[version |-> procs[p].req.zigVersion,
                           compat |-> procs[p].req.compatibility]>>

\* C5: the insert of a new record and the patch adding its own tested entry
\* are one step: every record of every state, those seen by concurrent
\* requests and those left by canceled ones included, carries the entry of
\* the publish that created it
C5_CreatedWithOwnEntry == [][C5_Step]_vars

\* a record has been created while another publish of the same version was
\* canceled before its batch and the creating request is not yet finished
C5_Witness ==
    \E p, q \in 1..MaxProcs :
        /\ procs[p].pc = "canceled"
        /\ procs[p].at = "batch"
        /\ procs[q].pc = "put"
        /\ procs[q].req.zlsVersion = procs[p].req.zlsVersion
        /\ procs[q].req.zlsVersion \in DOMAIN store

SelectDev == resp.op = "select" /\ ~resp.zigVersion.isRelease

LatestTagged == CHOOSE w \in AllTagged : \A u \in AllTagged : AtMost(u, w)

\* the first candidate of a development zigVersion v: the development record
\* of v's cycle with the lowest commitHeight, else the latest tagged record
FirstCandidate(v) ==
    IF Candidates(v) # {}
    THEN CHOOSE w \in Candidates(v) :
            \A u \in Candidates(v) : w.commitHeight <= u.commitHeight
    ELSE LatestTagged

\* a request for a development zigVersion below the minimum of its first candidate
BelowFirstCandidate ==
    /\ SelectDev
    /\ Candidates(resp.zigVersion) \cup AllTagged # {}
    /\ Order(resp.zigVersion,
             EffectiveMinimum(store[FirstCandidate(resp.zigVersion)],
                              resp.compatibility)) = lt

\* C11 as stated: below the minimum of the first candidate the result is
\* DevelopmentBuildUnsupported when the cycle has development records and
\* Unsupported when the candidate is the latest tagged record
C11_AsStated ==
    BelowFirstCandidate =>
        resp.result =
            IF Candidates(resp.zigVersion) # {}
            THEN Failure(DevelopmentBuildUnsupported)
            ELSE Failure(Unsupported)

\* C11 amended: below the minimum of the first candidate the result is
\* Unsupported when the cycle has development records and
\* DevelopmentBuildUnsupported when the candidate is the latest tagged record
C11_BelowFirstCandidate ==
    BelowFirstCandidate =>
        resp.result =
            IF Candidates(resp.zigVersion) # {}
            THEN Failure(Unsupported)
            ELSE Failure(DevelopmentBuildUnsupported)

\* below the first of two development records, whose second admits zigVersion
C11_Witness ==
    /\ BelowFirstCandidate
    /\ Cardinality(Candidates(resp.zigVersion)) = 2
    /\ Admitting(resp.zigVersion, resp.compatibility) # {}

\* C12: a development zigVersion gets Unsupported exactly when its cycle has
\* development builds and it is below their floor, and gets
\* DevelopmentBuildUnsupported when its cycle has none and the minimum of the
\* latest tagged release is above it
C12_SupportFloor ==
    SelectDev =>
        /\ resp.result = Failure(Unsupported) <=>
              (Candidates(resp.zigVersion) # {} /\ BelowFirstCandidate)
        /\ (Candidates(resp.zigVersion) = {} /\ BelowFirstCandidate) =>
              resp.result = Failure(DevelopmentBuildUnsupported)

\* without development builds of its cycle a zigVersion is below the
\* minimum of the latest tagged release and not below that of an older one
C12_Witness ==
    /\ BelowFirstCandidate
    /\ Candidates(resp.zigVersion) = {}
    /\ resp.compatibility = OnlyRuntime
    /\ \E w \in AllTagged :
          AtMost(EffectiveMinimum(store[w], OnlyRuntime), resp.zigVersion)

\* C13: the latest tagged release M.m.p is handed to a development
\* zigVersion only if that is at or above its minimum and belongs to the
\* cycle M.m or is an M.(m+1).0-dev version
C13_HandoffToNextCycleOnly ==
    (SelectedDev /\ resp.result.data.zlsVersion.isRelease) =>
        LET zls == resp.result.data.zlsVersion
            zig == resp.zigVersion
        IN  /\ AtMost(EffectiveMinimum(resp.result.data, resp.compatibility), zig)
            /\ zig.major = zls.major
            /\ \/ zig.minor = zls.minor
               \/ zig.minor = zls.minor + 1 /\ zig.patch = 0

\* the tested versions nearest to v from below and from above; a tested
\* version that compares equal to v is both
NearestBelow(testedVersions, v) ==
    LET below == {i \in 1..Len(testedVersions) : AtMost(testedVersions[i].version, v)}
    IN  {i \in below : \A j \in below :
            AtMost(testedVersions[j].version, testedVersions[i].version)}

NearestAbove(testedVersions, v) ==
    LET above == {i \in 1..Len(testedVersions) : AtMost(v, testedVersions[i].version)}
    IN  {i \in above : \A j \in above :
            AtMost(testedVersions[i].version, testedVersions[j].version)}

\* the naive definition: the nearest tested version <= v failed and the
\* nearest tested version >= v failed; tested versions that compare equal
\* share a position, which failed when all of them failed
NaiveEnclosed(testedVersions, v) ==
    /\ \A i \in NearestBelow(testedVersions, v) : ~testedVersions[i].isSuccess
    /\ \A i \in NearestAbove(testedVersions, v) : ~testedVersions[i].isSuccess

\* C14: for a non-empty list of tested versions sorted ascending and a
\* version v, isVersionEnclosedInFailure answers true exactly when the
\* nearest tested version <= v and the nearest tested version >= v failed
C14_EnclosedEqualsNaive ==
    resp.op = "enclosed" =>
        /\ resp.result # "assert"
        /\ resp.result = "enclosed" <=>
              NaiveEnclosed(resp.testedVersions, resp.version)

----------------------------------------------------------------------------
(* Publishes without artifacts, and publishes of tagged versions *)

\* C15: a publish with an empty artifact list is accepted only if a record
\* for its zlsVersion exists; for a version without a record it is answered
\* 400 and the store stays as it is; no stored record has empty artifacts
C15_Step ==
    (PublishStep /\ resp'.req.artifacts = {}) =>
        /\ resp'.status = 200 => resp'.req.zlsVersion \in DOMAIN store
        /\ resp'.req.zlsVersion \notin DOMAIN store =>
              resp'.status = 400 /\ store' = store /\ bucket' = bucket

C15_FailedBuildNeedsRecord ==
    /\ [][C15_Step]_vars
    /\ [](\A v \in DOMAIN store : store[v].artifacts # {})

\* a failed build of a version without a record was rejected while other
\* versions have records
C15_Witness ==
    /\ resp.op = "publish"
    /\ resp.error = "failed-build-not-updatable"
    /\ resp.req.artifacts = {}
    /\ store # EmptyStore
    /\ resp.req.zlsVersion \notin DOMAIN store

\* C16: every accepted publish of a tagged zlsVersion has a tagged
\* zigVersion, artifacts and compatibility Full, on the first publish and on
\* every later one; so every testedZigVersions entry of a tagged record is a
\* tagged Zig version with Full
C16_TaggedPublishedFull ==
    /\ (Accepted /\ resp.req.zlsVersion.isRelease) =>
          /\ resp.req.zigVersion.isRelease
          /\ resp.req.artifacts # {}
          /\ resp.req.compatibility = Full
    /\ \A v \in TaggedRows(store) :
          \A i \in 1..Len(store[v].testedZigVersions) :
              /\ store[v].testedZigVersions[i].version.isRelease
              /\ store[v].testedZigVersions[i].compat = Full

\* a tagged version that has a record was published again and accepted
C16_Witness ==
    /\ Accepted
    /\ resp.req.zlsVersion.isRelease
    /\ ~resp.created
    /\ Len(store[resp.req.zlsVersion].testedZigVersions) = 1

----------------------------------------------------------------------------
(* Access to publish *)

\* API_TOKEN is configured and not empty
TokenConfigured == env.API_TOKEN.type = "string" /\ env.API_TOKEN.value # ""

\* the password of Basic credentials is all that follows their first colon
Password(credentials) == SubSeq(credentials, 2, Len(credentials))

\* the request carries Basic credentials of user admin whose password is
\* the token (a token has no colon)
CarriesCredentials(request, token) ==
    /\ ~request.authorization.isNull
    /\ request.authorization.scheme = "Basic"
    /\ request.authorization.hasEncoded
    /\ request.authorization.credentials[1] = "admin"
    /\ Password(request.authorization.credentials) = <<token>>

Authenticated(request) ==
    /\ request.method = "POST"
    /\ TokenConfigured
    /\ CarriesCredentials(request, env.API_TOKEN.value)

\* the checks of the body that come before the check of the major version
PassesEarlierChecks(req) ==
    /\ req.zlsVersion.isRelease =>
          req.zigVersion.isRelease /\ req.artifacts # {}
    /\ ~req.zlsVersion.isRelease => req.zlsVersion.patch = 0
    /\ \A a \in req.artifacts :
          /\ a.fileSize # 0
          /\ a.fileShasum # "invalid"
          /\ {b.extension : b \in {c \in req.artifacts :
                    c.os = a.os /\ c.arch = a.arch /\ c.version = a.version}}
                = (IF a.os = "windows" THEN {"zip"} ELSE {"tar.xz", "tar.gz"})

MajorStep ==
    /\ PublishStep
    /\ Authenticated(resp'.req)
    /\ resp'.req.zlsVersion.major # 0

\* C17 as stated: an authenticated publish of a zlsVersion of major other
\* than 0 is answered 418 whatever its other fields are, and the store stays
\* as it is
C17_AsStated ==
    [][MajorStep =>
        resp'.status = 418 /\ store' = store /\ bucket' = bucket]_vars

\* C17: an authenticated publish of a zlsVersion of major other than 0
\* fails and leaves the store as it is; it is answered 418 when its body
\* passes the checks made before the major version is looked at, and 400
\* when it does not
C17_MajorRejected ==
    [][MajorStep =>
        /\ store' = store /\ bucket' = bucket
        /\ resp'.status = (IF PassesEarlierChecks(resp'.req) THEN 418 ELSE 400)]_vars

\* a version of major 1 was answered 418 while the store has a record
C17_Witness ==
    /\ resp.op = "publish"
    /\ Authenticated(resp.req)
    /\ resp.req.zlsVersion.major # 0
    /\ resp.status = 418
    /\ store # EmptyStore

\* C18: no publish request changes the release store or the blob store
\* unless it carries Basic credentials of user admin with the configured,
\* non-empty API token as password; a request without them is answered 400
\* or 401, and with no token configured every request is answered 500
C18_Step ==
    PublishStep =>
        /\ (store' # store \/ bucket' # bucket) =>
              /\ TokenConfigured
              /\ CarriesCredentials(resp'.req, env.API_TOKEN.value)
        /\ (TokenConfigured /\ ~CarriesCredentials(resp'.req, env.API_TOKEN.value)) =>
              resp'.status \in {400, 401}
        /\ ~TokenConfigured => resp'.status = 500

C18_PublishNeedsCredentials == [][C18_Step]_vars

----------------------------------------------------------------------------
(* index.json *)

\* the publish was accepted and created the record of a tagged version
CreatesTagged ==
    /\ PublishStep
    /\ resp'.status = 200
    /\ resp'.created
    /\ resp'.req.zlsVersion.isRelease

IndexVersions(index) == {index[i].zlsVersion : i \in 1..Len(index)}

\* C19: the index.json written by a publish that creates a tagged record
\* lists every tagged record of the store, the new one included, each at its
\* position in descending (major, minor, patch) order
C19_Step ==
    CreatesTagged =>
        /\ IndexVersions(bucket') = TaggedRows(store')
        /\ Len(bucket') = Cardinality(TaggedRows(store'))
        /\ \A i, j \in 1..Len(bucket') :
              i < j => Order(bucket'[i].zlsVersion, bucket'[j].zlsVersion) = gt

C19_IndexListsTaggedDescending == [][C19_Step]_vars

\* the step in which request p passes its batch: the publish is accepted
AcceptStep(p) ==
    /\ procs[p].pc = "batch"
    /\ procs'[p].pc \in {"put", "done"}

\* the version of the request, or for a development version another commit
\* at its (major, minor, patch, commitHeight), has a record
Stored(db, zlsVersion) ==
    \/ zlsVersion \in DOMAIN db
    \/ /\ ~zlsVersion.isRelease
       /\ DevByQuad(db, zlsVersion.major, zlsVersion.minor, zlsVersion.patch,
                    zlsVersion.commitHeight) # {}

\* C20: an accepted publish schedules a write of index.json exactly when it
\* creates a record, a version not stored so far; an accepted publish of a
\* stored version updates testedZigVersions and writes nothing to the blob
\* store
C20_Step ==
    \A p \in 1..MaxProcs :
        AcceptStep(p) =>
            /\ procs'[p].pc = "put" <=> DOMAIN store' # DOMAIN store
            /\ procs'[p].pc = "put" <=> ~Stored(store, procs[p].req.zlsVersion)
            /\ Stored(store, procs[p].req.zlsVersion) =>
                  /\ bucket' = bucket
                  /\ TestedGet(store'[procs[p].req.zlsVersion].testedZigVersions,
                               procs[p].req.zigVersion)
                        = procs[p].req.compatibility

C20_IndexWrittenOnCreation == [][C20_Step]_vars

----------------------------------------------------------------------------
(* The deferred write of index.json *)

Listed(v) == bucket # NoObject /\ v \in IndexVersions(bucket)

\* C21: every accepted publish that creates a tagged record is eventually
\* followed by an index.json that contains the record, the write being
\* retried until it succeeds
C21_IndexEventuallyWritten ==
    \A v \in {w \in ConcZlsVersions : w.isRelease} :
        (v \in DOMAIN store) ~> Listed(v)

----------------------------------------------------------------------------
(* The order of versions *)

Triple(v) == <<v.major, v.minor, v.patch>>

\* lexicographic order of two triples of numbers
LexLess(t, u) ==
    \/ t[1] < u[1]
    \/ t[1] = u[1] /\ t[2] < u[2]
    \/ t[1] = u[1] /\ t[2] = u[2] /\ t[3] < u[3]

\* what the claim says of compare(a, b)
Compared(a, b) ==
    IF LexLess(Triple(a), Triple(b)) THEN lt
    ELSE IF LexLess(Triple(b), Triple(a)) THEN gt
    ELSE IF a.isRelease /\ b.isRelease THEN eq
    ELSE IF a.isRelease THEN gt
    ELSE IF b.isRelease THEN lt
    ELSE IF a.commitHeight < b.commitHeight THEN lt
    ELSE IF a.commitHeight > b.commitHeight THEN gt
    ELSE eq

\* C22: order compares (major, minor, patch) lexicographically; for equal
\* triples a tagged version is greater than every development version, and
\* two development versions are ordered by commitHeight alone, the commitID
\* taking no part
C22_OrderAsDescribed ==
    resp.op = "order" =>
        /\ resp.ab = Compared(resp.a, resp.b)
        /\ resp.bc = Compared(resp.b, resp.c)
        /\ resp.ac = Compared(resp.a, resp.c)

\* two development versions that differ in the commitID alone compared
\* equal, and a tagged version of their triple compared greater
C22_Witness ==
    /\ resp.op = "order"
    /\ ~resp.a.isRelease /\ ~resp.b.isRelease /\ resp.c.isRelease
    /\ Triple(resp.a) = Triple(resp.b) /\ Triple(resp.b) = Triple(resp.c)
    /\ resp.a.commitHeight = resp.b.commitHeight
    /\ resp.a.commitID # resp.b.commitID
    /\ resp.ab = eq /\ resp.bc = lt

\* exactly one of lt, eq, gt; the converse; transitivity
TotalPreorder ==
    /\ resp.ab \in {lt, eq, gt}
    /\ resp.ba = 0 - resp.ab
    /\ (resp.ab \in {lt, eq} /\ resp.bc \in {lt, eq}) => resp.ac \in {lt, eq}
    /\ (resp.ab = lt /\ resp.bc \in {lt, eq}) => resp.ac = lt
    /\ (resp.ab \in {lt, eq} /\ resp.bc = lt) => resp.ac = lt

\* C23 as stated: order is a total order, and two versions compare equal
\* only when they are the same version
C23_AsStated ==
    resp.op = "order" =>
        /\ TotalPreorder
        /\ resp.ab = eq => resp.a = resp.b

\* C23: order is total, its converse is the order of the swapped pair, and
\* it is transitive; two versions compare equal exactly when they agree in
\* all but the commitID
C23_TotalPreorder ==
    resp.op = "order" =>
        /\ TotalPreorder
        /\ resp.ab = eq <=>
              /\ Triple(resp.a) = Triple(resp.b)
              /\ resp.a.isRelease = resp.b.isRelease
              /\ resp.a.commitHeight = resp.b.commitHeight

\* a development version of height 0, a tagged version of another triple
\* and a development version in between were compared
C23_Witness ==
    /\ resp.op = "order"
    /\ resp.a.commitHeight = 0
    /\ resp.c.isRelease
    /\ ~resp.b.isRelease
    /\ resp.ab = lt /\ resp.bc = lt /\ resp.ac = lt /\ resp.ba = gt

----------------------------------------------------------------------------
(* Version strings *)

\* C24: for every string that parse accepts, development versions of
\* commitHeight 0 included, toString of the parsed version completes,
\* returns the string, and parsing it again gives the parsed version
C24_RoundTrip ==
    /\ resp.op = "written" =>
          resp.written.kind = "string" /\ resp.written.value = resp.string
    /\ resp.op = "reparsed" => resp.again = resp.version

\* a number of the string has more digits than any safe integer
\* (Number.MAX_SAFE_INTEGER has sixteen)
Oversize(string) ==
    \E i \in 1..Len(string) : \E n \in 17..Len(string) :
        IsDigits(Slice(string, i, i + n - 1)) /\ i + n - 1 <= Len(string)

\* C25: parse returns null for every string in which major, minor, patch or
\* commitHeight is a number outside the safe integers
C25_OversizeIsNull ==
    (resp.op = "parsed" /\ Oversize(resp.string)) => resp.version = Null

----------------------------------------------------------------------------
(* The assertions of the selector *)

\* C26: on every store reached through accepted publishes, selection for a
\* valid zigVersion and compatibility ends with a record or with one of the
\* four failure codes: no assertion of the selector fails
C26_SelectionNeverAsserts ==
    resp.op = "select" =>
        \/ resp.result.kind = "release"
        \/ /\ resp.result.kind = "failure"
           /\ resp.result.code \in {Unsupported, DevelopmentBuildUnsupported,
                                     DevelopmentBuildIncompatible,
                                     TaggedReleaseIncompatible}

----------------------------------------------------------------------------
(* Concurrent publishes *)

\* C27: with publish requests interleaving at every query and write, the
\* store never holds two development records of one (major, minor, patch,
\* commitHeight) with different commitIDs
C27_UniquePositionsConcurrently ==
    \A v, w \in DOMAIN store :
        (/\ ~v.isRelease /\ ~w.isRelease
         /\ Triple(v) = Triple(w)
         /\ v.commitHeight = w.commitHeight) => v.commitID = w.commitID

\* no publish request is being handled and no write of index.json is pending
Quiescent == \A p \in 1..MaxProcs : procs[p].pc \in {"idle", "done", "canceled"}

\* the entries of index.json, none when the object was never written
IndexEntries == IF bucket = NoObject THEN <<>> ELSE bucket

\* C28: once every publish request and every deferred write of index.json
\* has completed, whatever the interleaving, index.json is the rendering of
\* the tagged records of the store: an entry for each of them, with the date
\* and the artifacts of the record
C28_IndexRendersStore ==
    Quiescent =>
        /\ IndexVersions(IndexEntries) = TaggedRows(store)
        /\ \A i \in 1..Len(IndexEntries) :
              IndexEntries[i].zlsVersion \in TaggedRows(store) =>
                  /\ IndexEntries[i].date =
                        ToISODate(store[IndexEntries[i].zlsVersion].date)
                  /\ IndexEntries[i].targets =
                        artifactsToRecord(store[IndexEntries[i].zlsVersion].artifacts)

\* request p was accepted: its batch has run
AcceptedRequest(p) ==
    \/ procs[p].pc = "put"
    \/ procs[p].pc = "done" /\ procs[p].status = 200

\* C29: no datapoint is lost: of the accepted publishes of one ZLS version
\* with different Zig versions, in any interleaving, the record's
\* testedZigVersions holds the entry of every one
C29_NoDatapointLost ==
    \A p \in 1..MaxProcs :
        (/\ AcceptedRequest(p)
         /\ \A q \in 1..MaxProcs \ {p} :
               (AcceptedRequest(q) /\ procs[q].req.zlsVersion = procs[p].req.zlsVersion)
                   => procs[q].req.zigVersion # procs[p].req.zigVersion)
        => /\ procs[p].req.zlsVersion \in DOMAIN store
           /\ TestedGet(store[procs[p].req.zlsVersion].testedZigVersions,
                        procs[p].req.zigVersion) = procs[p].req.compatibility

\* two publishes of one new version for two Zig versions both took the
\* version to be new, and both were accepted
C29_Witness ==
    /\ \A p \in 1..MaxProcs : procs[p].pc = "put"
    /\ procs[1].req.zlsVersion = procs[2].req.zlsVersion
    /\ procs[1].req.zigVersion # procs[2].req.zigVersion
    /\ Len(store[procs[1].req.zlsVersion].testedZigVersions) = 2

----------------------------------------------------------------------------
(* The weaker compatibility *)

\* C30: asking for the weaker compatibility never loses a result: when
\* selection for a development zigVersion with Full returns a record,
\* selection for it with OnlyRuntime on the same store returns a record too
C30_OnlyRuntimeKeepsResult ==
    (/\ SelectDev
     /\ resp.compatibility = Full
     /\ resp.result.kind = "release")
    => handleSelectVersion(store, resp.zigVersion, OnlyRuntime).kind = "release"

====
